---- MODULE Spec2Model ----
(***************************************************************************)
(* Model of compute_risk_and_typology (src/app.py), the rule engine that   *)
(* turns one transaction mapping into a score, a risk level, a list of     *)
(* typology labels and an explanation.                                     *)
(*                                                                         *)
(* Text is a sequence of one-character strings, so that str.strip,         *)
(* str.lower, the `in` substring test, float() parsing and "; ".join are   *)
(* computed character by character.  The en dash of the two "Medium        *)
(* amount" reasons is the single element "EN_DASH".  Amounts are whole     *)
(* dollars.                                                                *)
(***************************************************************************)
EXTENDS Integers, Sequences, FiniteSets, TLC

VARIABLES tx, res, risk_points, reasons

vars == <<tx, res, risk_points, reasons>>

(***************************************************************************)
(* Bounds of the model.                                                    *)
(***************************************************************************)
\* numeric amounts are 0 and every threshold of the amount rule, each with
\* the amounts up to MaxOver dollars above it
MaxOver == 1

(***************************************************************************)
(* Python values held by a transaction mapping.                            *)
(*   kind "absent" : the key is not in the mapping                         *)
(*   kind "None"   : None                                                  *)
(*   kind "str"    : a str, its characters in text                         *)
(*   kind "float"  : a finite number, in num                               *)
(*   kind "nan"    : float('nan') (what pandas puts in an empty CSV cell)  *)
(***************************************************************************)
Absent == [kind |-> "absent", text |-> <<>>, num |-> 0]
None == [kind |-> "None", text |-> <<>>, num |-> 0]
NaN == [kind |-> "nan", text |-> <<>>, num |-> 0]
Str(s) == [kind |-> "str", text |-> s, num |-> 0]
Float(n) == [kind |-> "float", text |-> <<>>, num |-> n]

(***************************************************************************)
(* Reference tables.                                                       *)
(***************************************************************************)
HIGH_RISK_COUNTRIES ==
    { <<"A","f","g","h","a","n","i","s","t","a","n">>, <<"N","o","r","t","h"," ","K","o","r","e","a">>, <<"I","r","a","n">>, <<"S","y","r","i","a">>, <<"R","u","s","s","i","a">> }

MEDIUM_RISK_COUNTRIES ==
    { <<"P","a","k","i","s","t","a","n">>, <<"Y","e","m","e","n">>, <<"I","r","a","q">>, <<"L","i","b","y","a">> }

HIGH_RISK_PURPOSES ==
    << <<"H","a","w","a","l","a"," ","t","r","a","n","s","f","e","r">>, <<"C","r","y","p","t","o","c","u","r","r","e","n","c","y"," ","e","x","c","h","a","n","g","e">>, <<"H","i","g","h","-","v","a","l","u","e"," ","c","a","s","h">>,
       <<"S","u","s","p","i","c","i","o","u","s"," ","p","a","y","m","e","n","t">>, <<"T","r","a","d","e","-","b","a","s","e","d"," ","m","o","n","e","y"," ","l","a","u","n","d","e","r","i","n","g">> >>

(***************************************************************************)
(* str methods and builtins.                                               *)
(***************************************************************************)
Whitespace == {" ", "\t", "\n", "\r"}

UpperCase == <<"A","B","C","D","E","F","G","H","I","J","K","L","M","N","O","P","Q","R","S","T","U","V","W","X","Y","Z">>
LowerCase == <<"a","b","c","d","e","f","g","h","i","j","k","l","m","n","o","p","q","r","s","t","u","v","w","x","y","z">>
Digits == <<"0","1","2","3","4","5","6","7","8","9">>

IndexOf(c, seq) ==
    IF \E i \in 1..Len(seq) : seq[i] = c
    THEN CHOOSE i \in 1..Len(seq) : seq[i] = c
    ELSE 0

LowerOf == [c \in {UpperCase[i] : i \in 1..Len(UpperCase)} |-> LowerCase[IndexOf(c, UpperCase)]]

LowerChar(c) == IF c \in DOMAIN LowerOf THEN LowerOf[c] ELSE c

\* str.lower()

lower(s) == [i \in 1..Len(s) |-> LowerChar(s[i])]

RECURSIVE lstrip(_)
lstrip(s) ==
    IF s # <<>> /\ Head(s) \in Whitespace THEN lstrip(Tail(s)) ELSE s

RECURSIVE rstrip(_)
rstrip(s) ==
    IF s # <<>> /\ s[Len(s)] \in Whitespace
    THEN rstrip(SubSeq(s, 1, Len(s) - 1))
    ELSE s

\* str.strip()
strip(s) == rstrip(lstrip(s))

\* needle in hay
Contains(needle, hay) ==
    \E i \in 0..(Len(hay) - Len(needle)) :
        SubSeq(hay, i + 1, i + Len(needle)) = needle

\* sep.join(parts)
RECURSIVE Join(_, _)
Join(sep, parts) ==
    IF parts = <<>> THEN <<>>
    ELSE IF Len(parts) = 1 THEN parts[1]
    ELSE parts[1] \o sep \o Join(sep, Tail(parts))

DigitOf == [c \in {Digits[i] : i \in 1..Len(Digits)} |-> IndexOf(c, Digits) - 1]

RECURSIVE DigitsValue(_)
DigitsValue(s) ==
    IF s = <<>> THEN 0
    ELSE 10 * DigitsValue(SubSeq(s, 1, Len(s) - 1)) + DigitOf[s[Len(s)]]

IsDigits(s) == s # <<>> /\ \A i \in 1..Len(s) : s[i] \in DOMAIN DigitOf

\* float(v): a number is kept; text is trimmed and read as an optionally
\* signed whole number or as nan; any other text raises ValueError; None
\* raises TypeError.
float(v) ==
    IF v.kind \in {"float", "nan"} THEN [exc |-> "", val |-> v]
    ELSE IF v.kind = "str" THEN
        LET t == strip(v.text)
            signed == t # <<>> /\ Head(t) \in {"+", "-"}
            body == IF signed THEN Tail(t) ELSE t
        IN  IF IsDigits(body)
            THEN [exc |-> "",
                  val |-> Float(IF signed /\ Head(t) = "-"
                                THEN 0 - DigitsValue(body) ELSE DigitsValue(body))]
            ELSE IF lower(body) = <<"n","a","n">> THEN [exc |-> "", val |-> NaN]
            ELSE [exc |-> "ValueError", val |-> None]
    ELSE [exc |-> "TypeError", val |-> None]

\* bool(v)
Truthy(v) ==
    CASE v.kind = "None" -> FALSE
      [] v.kind = "str" -> v.text # <<>>
      [] v.kind = "float" -> v.num # 0
      [] OTHER -> TRUE

\* a or b
Or(a, b) == IF Truthy(a) THEN a ELSE b

\* tx.get(key, default); tx.get(key) is Get(t, key, None)
Get(t, key, default) == IF t[key].kind = "absent" THEN default ELSE t[key]

\* x > threshold on floats: every comparison with nan is False
Gt(x, threshold) == x.kind = "float" /\ x.num > threshold

(***************************************************************************)
(* compute_risk_and_typology, piece by piece.                              *)
(***************************************************************************)
\* The five coercions at the top of the function, in order; exc names the
\* exception of the first one that raises ("" when none does).
Coerce(t) ==
    LET rawSender == Get(t, "remitter_country", Str(<<>>))
        rawReceiver == Get(t, "beneficiary_country", Str(<<>>))
        parsed == float(Or(Get(t, "amount_usd", None), Float(0)))
        rawPurpose == Get(t, "purpose", Str(<<>>))
        rawAcct == Get(t, "account_type", Str(<<"I","n","d","i","v","i","d","u","a","l">>))
        exc == IF rawSender.kind # "str" THEN "AttributeError"
               ELSE IF rawReceiver.kind # "str" THEN "AttributeError"
               ELSE IF parsed.exc # "" THEN parsed.exc
               ELSE IF rawPurpose.kind # "str" THEN "AttributeError"
               ELSE IF rawAcct.kind # "str" THEN "AttributeError"
               ELSE ""
    IN  [exc |-> exc,
         sender |-> strip(rawSender.text),
         receiver |-> strip(rawReceiver.text),
         amount |-> parsed.val,
         purpose |-> lower(strip(rawPurpose.text)),
         acct_type |-> lower(rawAcct.text)]

NoPoints == [points |-> 0, reasons |-> <<>>]

Fired(p, reason) == [points |-> p, reasons |-> <<reason>>]

\* Country risk
CountryRuleAdditive(sender, receiver) ==
    LET high == IF sender \in HIGH_RISK_COUNTRIES \/ receiver \in HIGH_RISK_COUNTRIES
                THEN Fired(50, <<"H","i","g","h","-","r","i","s","k"," ","/"," ","s","a","n","c","t","i","o","n","e","d"," ","c","o","u","n","t","r","y",":"," ">> \o sender \o <<" ","-",">"," ">> \o receiver)
                ELSE NoPoints
        medium == IF sender \in MEDIUM_RISK_COUNTRIES \/ receiver \in MEDIUM_RISK_COUNTRIES
                  THEN Fired(20, <<"M","e","d","i","u","m","-","r","i","s","k"," ","c","o","u","n","t","r","y",":"," ">> \o sender \o <<" ","-",">"," ">> \o receiver)
                  ELSE NoPoints
    IN  [points |-> high.points + medium.points,
         reasons |-> high.reasons \o medium.reasons]

CountryRuleSenderOnly(sender, receiver) ==
    IF sender \in HIGH_RISK_COUNTRIES
    THEN Fired(50, <<"H","i","g","h","-","r","i","s","k"," ","/"," ","s","a","n","c","t","i","o","n","e","d"," ","c","o","u","n","t","r","y",":"," ">> \o sender \o <<" ","-",">"," ">> \o receiver)
    ELSE IF sender \in MEDIUM_RISK_COUNTRIES \/ receiver \in MEDIUM_RISK_COUNTRIES
    THEN Fired(20, <<"M","e","d","i","u","m","-","r","i","s","k"," ","c","o","u","n","t","r","y",":"," ">> \o sender \o <<" ","-",">"," ">> \o receiver)
    ELSE NoPoints

CountryRule(sender, receiver) ==
    IF sender \in HIGH_RISK_COUNTRIES \/ receiver \in HIGH_RISK_COUNTRIES
    THEN Fired(50, <<"H","i","g","h","-","r","i","s","k"," ","/"," ","s","a","n","c","t","i","o","n","e","d"," ","c","o","u","n","t","r","y",":"," ">> \o sender \o <<" ","-",">"," ">> \o receiver)
    ELSE IF sender \in MEDIUM_RISK_COUNTRIES \/ receiver \in MEDIUM_RISK_COUNTRIES
    THEN Fired(20, <<"M","e","d","i","u","m","-","r","i","s","k"," ","c","o","u","n","t","r","y",":"," ">> \o sender \o <<" ","-",">"," ">> \o receiver)
    ELSE NoPoints

\* Amount thresholds differ for Individuals vs Companies
AmountRuleInclusive(amount, acct_type) ==
    IF acct_type = <<"i","n","d","i","v","i","d","u","a","l">>
    THEN IF Gt(amount, 10000 - 1)
         THEN Fired(20, <<"L","a","r","g","e"," ","a","m","o","u","n","t"," ","(",">","1","0",",","0","0","0"," ","U","S","D",")"," ","f","o","r"," ","i","n","d","i","v","i","d","u","a","l">>)
         ELSE IF Gt(amount, 5000 - 1)
         THEN Fired(10, <<"M","e","d","i","u","m"," ","a","m","o","u","n","t"," ","(","5",",","0","0","0","EN_DASH","1","0",",","0","0","0"," ","U","S","D",")"," ","f","o","r"," ","i","n","d","i","v","i","d","u","a","l">>)
         ELSE NoPoints
    ELSE IF Gt(amount, 50000 - 1)
         THEN Fired(20, <<"L","a","r","g","e"," ","a","m","o","u","n","t"," ","(",">","5","0",",","0","0","0"," ","U","S","D",")"," ","f","o","r"," ","c","o","m","p","a","n","y">>)
         ELSE IF Gt(amount, 20000 - 1)
         THEN Fired(10, <<"M","e","d","i","u","m"," ","a","m","o","u","n","t"," ","(","2","0",",","0","0","0","EN_DASH","5","0",",","0","0","0"," ","U","S","D",")"," ","f","o","r"," ","c","o","m","p","a","n","y">>)
         ELSE NoPoints

AmountRuleOpenBand(amount, acct_type) ==
    IF acct_type = <<"i","n","d","i","v","i","d","u","a","l">>
    THEN IF Gt(amount, 10000)
         THEN Fired(20, <<"L","a","r","g","e"," ","a","m","o","u","n","t"," ","(",">","1","0",",","0","0","0"," ","U","S","D",")"," ","f","o","r"," ","i","n","d","i","v","i","d","u","a","l">>)
         ELSE IF Gt(amount, 5000) /\ ~Gt(amount, 10000 - 1)
         THEN Fired(10, <<"M","e","d","i","u","m"," ","a","m","o","u","n","t"," ","(","5",",","0","0","0","EN_DASH","1","0",",","0","0","0"," ","U","S","D",")"," ","f","o","r"," ","i","n","d","i","v","i","d","u","a","l">>)
         ELSE NoPoints
    ELSE IF Gt(amount, 50000)
         THEN Fired(20, <<"L","a","r","g","e"," ","a","m","o","u","n","t"," ","(",">","5","0",",","0","0","0"," ","U","S","D",")"," ","f","o","r"," ","c","o","m","p","a","n","y">>)
         ELSE IF Gt(amount, 20000) /\ ~Gt(amount, 50000 - 1)
         THEN Fired(10, <<"M","e","d","i","u","m"," ","a","m","o","u","n","t"," ","(","2","0",",","0","0","0","EN_DASH","5","0",",","0","0","0"," ","U","S","D",")"," ","f","o","r"," ","c","o","m","p","a","n","y">>)
         ELSE NoPoints

AmountRule(amount, acct_type) ==
    IF acct_type = <<"i","n","d","i","v","i","d","u","a","l">>
    THEN IF Gt(amount, 10000)
         THEN Fired(20, <<"L","a","r","g","e"," ","a","m","o","u","n","t"," ","(",">","1","0",",","0","0","0"," ","U","S","D",")"," ","f","o","r"," ","i","n","d","i","v","i","d","u","a","l">>)
         ELSE IF Gt(amount, 5000)
         THEN Fired(10, <<"M","e","d","i","u","m"," ","a","m","o","u","n","t"," ","(","5",",","0","0","0","EN_DASH","1","0",",","0","0","0"," ","U","S","D",")"," ","f","o","r"," ","i","n","d","i","v","i","d","u","a","l">>)
         ELSE NoPoints
    ELSE IF Gt(amount, 50000)
         THEN Fired(20, <<"L","a","r","g","e"," ","a","m","o","u","n","t"," ","(",">","5","0",",","0","0","0"," ","U","S","D",")"," ","f","o","r"," ","c","o","m","p","a","n","y">>)
         ELSE IF Gt(amount, 20000)
         THEN Fired(10, <<"M","e","d","i","u","m"," ","a","m","o","u","n","t"," ","(","2","0",",","0","0","0","EN_DASH","5","0",",","0","0","0"," ","U","S","D",")"," ","f","o","r"," ","c","o","m","p","a","n","y">>)
         ELSE NoPoints

\* hrp.lower() for hrp in HIGH_RISK_PURPOSES
LoweredPurposes == [i \in 1..Len(HIGH_RISK_PURPOSES) |-> lower(HIGH_RISK_PURPOSES[i])]

\* Purpose-based risk
PurposeRule(purpose) ==
    IF \E i \in 1..Len(LoweredPurposes) : Contains(LoweredPurposes[i], purpose)
    THEN Fired(20, <<"H","i","g","h","-","r","i","s","k"," ","p","u","r","p","o","s","e"," ","d","e","t","e","c","t","e","d",":"," ">> \o purpose)
    ELSE NoPoints

\* Cross-border
CrossBorderRule(sender, receiver) ==
    IF sender # receiver THEN Fired(10, <<"C","r","o","s","s","-","b","o","r","d","e","r"," ","t","r","a","n","s","a","c","t","i","o","n">>) ELSE NoPoints

\* score = min(100, risk_points)
CapScoreMax(points) == IF points > 100 THEN points ELSE 100

CapScore(points) == IF points < 100 THEN points ELSE 100

\* Determine risk level
RiskLevelInclusive(score) ==
    IF score <= 30 THEN [level |-> "Low", emoji |-> "green circle"]
    ELSE IF score <= 60 THEN [level |-> "Medium", emoji |-> "orange circle"]
    ELSE [level |-> "High", emoji |-> "red circle"]

RiskLevel(score) ==
    IF score < 30 THEN [level |-> "Low", emoji |-> "green circle"]
    ELSE IF score < 60 THEN [level |-> "Medium", emoji |-> "orange circle"]
    ELSE [level |-> "High", emoji |-> "red circle"]

LayeringLabel == <<"L","a","y","e","r","i","n","g"," ","/"," ","C","r","o","s","s","-","b","o","r","d","e","r"," ","s","t","r","u","c","t","u","r","i","n","g">>
RemittanceLabel == <<"C","r","o","s","s","-","b","o","r","d","e","r"," ","r","e","t","a","i","l"," ","r","e","m","i","t","t","a","n","c","e"," ","/"," ","f","u","n","n","e","l"," ","a","c","c","o","u","n","t">>
CryptoLabel == <<"C","r","y","p","t","o"," ","t","r","a","n","s","a","c","t","i","o","n">>
TradeLabel == <<"T","r","a","d","e","-","b","a","s","e","d"," ","m","o","n","e","y"," ","l","a","u","n","d","e","r","i","n","g">>
NoTypologyLabel == <<"N","o"," ","c","l","e","a","r"," ","t","y","p","o","l","o","g","y"," ","d","e","t","e","c","t","e","d">>
NoDriversText == <<"N","o"," ","s","t","r","o","n","g"," ","d","r","i","v","e","r","s"," ","d","e","t","e","c","t","e","d"," ","b","y"," ","d","e","m","o"," ","r","u","l","e","s",".">>

\* Typologies
TypologiesAlwaysSentinel(amount, sender, receiver, purpose, acct_type) ==
    (IF Gt(amount, 10000) /\ sender \in HIGH_RISK_COUNTRIES THEN <<LayeringLabel>> ELSE <<>>)
    \o (IF Gt(amount, 5000) /\ sender # receiver /\ acct_type = <<"i","n","d","i","v","i","d","u","a","l">>
        THEN <<RemittanceLabel>> ELSE <<>>)
    \o (IF Contains(<<"c","r","y","p","t","o">>, purpose) THEN <<CryptoLabel>> ELSE <<>>)
    \o (IF Contains(<<"t","r","a","d","e">>, purpose) THEN <<TradeLabel>> ELSE <<>>)
    \o <<NoTypologyLabel>>

Typologies(amount, sender, receiver, purpose, acct_type) ==
    LET matched ==
            (IF Gt(amount, 10000) /\ sender \in HIGH_RISK_COUNTRIES
             THEN <<LayeringLabel>> ELSE <<>>)
            \o (IF Gt(amount, 5000) /\ sender # receiver /\ acct_type = <<"i","n","d","i","v","i","d","u","a","l">>
                THEN <<RemittanceLabel>> ELSE <<>>)
            \o (IF Contains(<<"c","r","y","p","t","o">>, purpose) THEN <<CryptoLabel>> ELSE <<>>)
            \o (IF Contains(<<"t","r","a","d","e">>, purpose) THEN <<TradeLabel>> ELSE <<>>)
    IN  IF matched = <<>> THEN <<NoTypologyLabel>> ELSE matched

\* explanation
ExplanationNoSpace(rs) == IF rs # <<>> THEN Join(<<";">>, rs) ELSE NoDriversText

Explanation(rs) == IF rs # <<>> THEN Join(<<";"," ">>, rs) ELSE NoDriversText

\* the returned dict
Result(score, typologies, explanation) ==
    [status |-> "ok",
     score |-> score,
     level |-> RiskLevel(score).level,
     emoji |-> RiskLevel(score).emoji,
     typologies |-> typologies,
     explanation |-> explanation]

\* From "Determine risk level" to the return, given the accumulators.
Finish(c, points, rs) ==
    [risk_points |-> points,
     reasons |-> rs,
     result |-> Result(CapScore(points),
                       Typologies(c.amount, c.sender, c.receiver, c.purpose, c.acct_type),
                       Explanation(rs))]

\* risk_points += ...; reasons.append(...) over the four groups in order
Accumulate(c, country, amt, purp, cross) ==
    Finish(c,
           country.points + amt.points + purp.points + cross.points,
           country.reasons \o amt.reasons \o purp.reasons \o cross.reasons)

\* The body of the function after the coercions c.
RunRules(c) ==
    IF c.exc # ""
    THEN [risk_points |-> 0, reasons |-> <<>>,
          result |-> [status |-> "raised", exc |-> c.exc]]
    ELSE Accumulate(c,
                    CountryRule(c.sender, c.receiver),
                    AmountRule(c.amount, c.acct_type),
                    PurposeRule(c.purpose),
                    CrossBorderRule(c.sender, c.receiver))

\* The whole call: the locals risk_points and reasons as they stand when the
\* function returns or raises, and the returned dict (result).
compute_risk_and_typology(t) == RunRules(Coerce(t))

(***************************************************************************)
(* Transactions handed to the function: rows of a CSV read with dtype=str  *)
(* (text, or nan for an empty cell), the manual form (text and a number)   *)
(* and mappings with keys missing or None.                                 *)
(***************************************************************************)
Keys == {"remitter_country", "beneficiary_country", "amount_usd", "purpose", "account_type"}

AmountThresholds == {5000, 10000, 20000, 50000}

NumericAmounts == {t + d : t \in AmountThresholds \cup {0}, d \in 0..MaxOver}

SenderValues ==
    { Absent, None, Str(<<"I","r","a","n">>), Str(<<" ","I","r","a","n"," ">>), Str(<<"P","a","k","i","s","t","a","n">>), Str(<<"I","n","d","i","a">>) }

ReceiverValues ==
    { Absent, NaN, Str(<<"I","r","a","n">>), Str(<<"P","a","k","i","s","t","a","n">>), Str(<<"I","n","d","i","a">>) }

AmountValues ==
    { Absent, None, NaN, Str(<<>>), Str(<<"1","5","0","0","0">>), Str(<<"a","b","c">>) }
    \cup { Float(n) : n \in NumericAmounts }

PurposeValues ==
    { Absent, None, Str(<<"F","a","m","i","l","y"," ","S","u","p","p","o","r","t">>), Str(<<" ","H","a","w","a","l","a"," ","T","r","a","n","s","f","e","r"," ">>),
      Str(<<"C","r","y","p","t","o","c","u","r","r","e","n","c","y"," ","E","x","c","h","a","n","g","e">>), Str(<<"t","r","a","d","e"," ","f","i","n","a","n","c","e">>) }

AccountTypeValues ==
    { Absent, None, Str(<<"I","n","d","i","v","i","d","u","a","l">>), Str(<<"C","o","m","p","a","n","y">>), Str(<<"T","r","u","s","t">>) }

Transaction(s, r, a, p, at) ==
    [k \in Keys |->
        CASE k = "remitter_country" -> s
          [] k = "beneficiary_country" -> r
          [] k = "amount_usd" -> a
          [] k = "purpose" -> p
          [] k = "account_type" -> at]

NoResult == [status |-> "none"]

(***************************************************************************)
(* State machine.  tx is the transaction at hand, res the dict returned    *)
(* for it (status "raised" when the call raised instead), risk_points and  *)
(* reasons the function's accumulators at that point.                      *)
(***************************************************************************)
Init ==
    /\ \E s \in SenderValues, r \in ReceiverValues, a \in AmountValues,
          p \in PurposeValues, at \in AccountTypeValues :
            tx = Transaction(s, r, a, p, at)
    /\ res = NoResult
    /\ risk_points = 0
    /\ reasons = <<>>

\* the outcome of a call becomes the state
Record(run) ==
    /\ res' = run.result
    /\ risk_points' = run.risk_points
    /\ reasons' = run.reasons

\* "Score Transaction": res = compute_risk_and_typology(tx)
ScoreTransaction ==
    /\ res.status = "none"
    /\ Record(compute_risk_and_typology(tx))
    /\ UNCHANGED tx

\* A scored transaction submitted again from the manual form with another
\* number in "Amount (USD)" and every other field as before.
SubmitAmount(n) ==
    /\ res.status = "ok"
    /\ tx' = [tx EXCEPT !["amount_usd"] = Float(n)]
    /\ Record(compute_risk_and_typology(tx'))

Next ==
    \/ ScoreTransaction
    \/ \E n \in NumericAmounts : SubmitAmount(n)

Spec == Init /\ [][Next]_vars

(***************************************************************************)
(* Vocabulary of the properties.                                           *)
(***************************************************************************)
Scored == res.status = "ok"

\* the coerced fields of the transaction at hand
In == Coerce(tx)

Range(seq) == {seq[i] : i \in 1..Len(seq)}

StartsWith(prefix, s) == Len(s) >= Len(prefix) /\ SubSeq(s, 1, Len(prefix)) = prefix

Min(a, b) == IF a < b THEN a ELSE b

\* the rule group a reason string comes from: 1 country, 2 amount,
\* 3 purpose, 4 cross-border, 0 none of them
GroupOf(reason) ==
    IF StartsWith(<<"H","i","g","h","-","r","i","s","k"," ","/"," ","s","a","n","c","t","i","o","n","e","d"," ","c","o","u","n","t","r","y",":"," ">>, reason)
       \/ StartsWith(<<"M","e","d","i","u","m","-","r","i","s","k"," ","c","o","u","n","t","r","y",":"," ">>, reason) THEN 1
    ELSE IF StartsWith(<<"L","a","r","g","e"," ","a","m","o","u","n","t"," ","(",">">>, reason)
            \/ StartsWith(<<"M","e","d","i","u","m"," ","a","m","o","u","n","t"," ","(">>, reason) THEN 2
    ELSE IF StartsWith(<<"H","i","g","h","-","r","i","s","k"," ","p","u","r","p","o","s","e"," ","d","e","t","e","c","t","e","d",":"," ">>, reason) THEN 3
    ELSE IF reason = <<"C","r","o","s","s","-","b","o","r","d","e","r"," ","t","r","a","n","s","a","c","t","i","o","n">> THEN 4
    ELSE 0

GroupFired(g) == \E i \in 1..Len(reasons) : GroupOf(reasons[i]) = g

InvolvesHighRisk == In.sender \in HIGH_RISK_COUNTRIES \/ In.receiver \in HIGH_RISK_COUNTRIES

InvolvesMediumRisk == In.sender \in MEDIUM_RISK_COUNTRIES \/ In.receiver \in MEDIUM_RISK_COUNTRIES

\* the (high, medium) thresholds of the amount rule for an account type
ThresholdPair(acct_type) ==
    IF acct_type = <<"i","n","d","i","v","i","d","u","a","l">> THEN <<10000, 5000>> ELSE <<50000, 20000>>

ExpectedCountryPoints == IF InvolvesHighRisk THEN 50 ELSE IF InvolvesMediumRisk THEN 20 ELSE 0

ExpectedAmountPoints ==
    IF Gt(In.amount, ThresholdPair(In.acct_type)[1]) THEN 20
    ELSE IF Gt(In.amount, ThresholdPair(In.acct_type)[2]) THEN 10
    ELSE 0

(***************************************************************************)
(* C1                                                                      *)
(***************************************************************************)
\* C1: every returned score is an integer in 0..100 and equals
\* min(100, country + amount + purpose + cross-border points), each of the
\* four groups contributing a non-negative number of points.
C1_ScoreIsCappedSum ==
    Scored =>
        LET cp == CountryRule(In.sender, In.receiver).points
            ap == AmountRule(In.amount, In.acct_type).points
            pp == PurposeRule(In.purpose).points
            xp == CrossBorderRule(In.sender, In.receiver).points
        IN  /\ res.score \in 0..100
            /\ cp >= 0 /\ ap >= 0 /\ pp >= 0 /\ xp >= 0
            /\ risk_points = cp + ap + pp + xp
            /\ res.score = Min(100, cp + ap + pp + xp)

\* all four groups fire and the sum reaches the cap
C1_Witness ==
    /\ Scored
    /\ Len(reasons) = 4
    /\ risk_points = 100
    /\ res.score = 100

(***************************************************************************)
(* C2                                                                      *)
(***************************************************************************)
\* C2: the call never raises: whatever the fields hold, a result is
\* returned, with a missing or unparseable amount read as 0, a missing
\* country or purpose as the empty string and a missing account type as
\* individual.
C2_NeverRaises ==
    res.status # "none" =>
        /\ res.status = "ok"
        /\ tx["amount_usd"].kind \in {"absent", "None"} => In.amount = Float(0)
        /\ (tx["amount_usd"].kind = "str" /\ float(tx["amount_usd"]).exc # "") => In.amount = Float(0)
        /\ tx["remitter_country"].kind = "absent" => In.sender = <<>>
        /\ tx["beneficiary_country"].kind = "absent" => In.receiver = <<>>
        /\ tx["purpose"].kind = "absent" => In.purpose = <<>>
        /\ tx["account_type"].kind = "absent" => In.acct_type = <<"i","n","d","i","v","i","d","u","a","l">>

(***************************************************************************)
(* C3                                                                      *)
(***************************************************************************)
\* C3: the level is decided by the score alone: below 30 Low, from 30 to
\* 59 Medium, from 60 High; 29 is Low, 30 Medium, 59 Medium, 60 High.
C3_LevelByScore ==
    /\ Scored =>
        /\ res.score < 30 => res.level = "Low"
        /\ (30 <= res.score /\ res.score < 60) => res.level = "Medium"
        /\ res.score >= 60 => res.level = "High"
    /\ RiskLevel(29).level = "Low"
    /\ RiskLevel(30).level = "Medium"
    /\ RiskLevel(59).level = "Medium"
    /\ RiskLevel(60).level = "High"

\* a transaction scored exactly 60
C3_Witness ==
    /\ Scored
    /\ res.score = 60
    /\ res.level = "High"

(***************************************************************************)
(* C4                                                                      *)
(***************************************************************************)
\* C4: the amount rule takes its (high, medium) thresholds from the
\* lowercased account type, (10000, 5000) for individual and the default
\* (50000, 20000) for any other; it gives 20 points above the high
\* threshold, 10 above the medium one only, 0 otherwise, and an amount equal
\* to a threshold does not trigger it.
C4_AmountRule ==
    Scored =>
        /\ risk_points = CountryRule(In.sender, In.receiver).points
                         + ExpectedAmountPoints
                         + PurposeRule(In.purpose).points
                         + CrossBorderRule(In.sender, In.receiver).points
        /\ GroupFired(2) <=> ExpectedAmountPoints > 0
        /\ In.amount = Float(ThresholdPair(In.acct_type)[1]) => ExpectedAmountPoints = 10
        /\ In.amount = Float(ThresholdPair(In.acct_type)[2]) => ~GroupFired(2)
        /\ (tx["account_type"].kind = "str"
            /\ tx["account_type"].text \in {<<"I","n","d","i","v","i","d","u","a","l">>, <<"I","N","D","I","V","I","D","U","A","L">>, <<"i","n","d","i","v","i","d","u","a","l">>})
           => ThresholdPair(In.acct_type) = <<10000, 5000>>

\* an amount exactly on the high threshold of an "Individual" account gets
\* the medium points only
C4_Witness ==
    /\ Scored
    /\ tx["account_type"] = Str(<<"I","n","d","i","v","i","d","u","a","l">>)
    /\ In.amount = Float(10000)
    /\ <<"M","e","d","i","u","m"," ","a","m","o","u","n","t"," ","(","5",",","0","0","0","EN_DASH","1","0",",","0","0","0"," ","U","S","D",")"," ","f","o","r"," ","i","n","d","i","v","i","d","u","a","l">> \in Range(reasons)

(***************************************************************************)
(* C5                                                                      *)
(***************************************************************************)
\* C5: the country rule gives 50 when the sender or the receiver is a
\* high-risk country, otherwise 20 when either is a medium-risk country,
\* otherwise 0, and at most one country reason; a high-risk country with a
\* medium-risk one gives 50 and the single high-risk reason.
C5_CountryRule ==
    Scored =>
        /\ risk_points = ExpectedCountryPoints
                         + AmountRule(In.amount, In.acct_type).points
                         + PurposeRule(In.purpose).points
                         + CrossBorderRule(In.sender, In.receiver).points
        /\ Cardinality({i \in 1..Len(reasons) : GroupOf(reasons[i]) = 1})
            = (IF ExpectedCountryPoints > 0 THEN 1 ELSE 0)
        /\ InvolvesHighRisk =>
            /\ reasons # <<>>
            /\ StartsWith(<<"H","i","g","h","-","r","i","s","k"," ","/"," ","s","a","n","c","t","i","o","n","e","d"," ","c","o","u","n","t","r","y",":"," ">>, reasons[1])
            /\ \A i \in 1..Len(reasons) : ~StartsWith(<<"M","e","d","i","u","m","-","r","i","s","k"," ","c","o","u","n","t","r","y",":"," ">>, reasons[i])

\* a high-risk sender with a medium-risk receiver
C5_Witness ==
    /\ Scored
    /\ In.sender \in HIGH_RISK_COUNTRIES
    /\ In.receiver \in MEDIUM_RISK_COUNTRIES
    /\ StartsWith(<<"H","i","g","h","-","r","i","s","k"," ","/"," ","s","a","n","c","t","i","o","n","e","d"," ","c","o","u","n","t","r","y",":"," ">>, reasons[1])

(***************************************************************************)
(* C6                                                                      *)
(***************************************************************************)
LayeringMatched == Gt(In.amount, 10000) /\ In.sender \in HIGH_RISK_COUNTRIES

RemittanceMatched ==
    Gt(In.amount, 5000) /\ In.sender # In.receiver /\ In.acct_type = <<"i","n","d","i","v","i","d","u","a","l">>

CryptoMatched == Contains(<<"c","r","y","p","t","o">>, In.purpose)

TradeMatched == Contains(<<"t","r","a","d","e">>, In.purpose)

\* C6: the typology list is never empty; "No clear typology detected" is in
\* it exactly when none of the four typology predicates matched, and then
\* it is the only label.
C6_SentinelExclusive ==
    Scored =>
        /\ res.typologies # <<>>
        /\ NoTypologyLabel \in Range(res.typologies)
            <=> ~(LayeringMatched \/ RemittanceMatched \/ CryptoMatched \/ TradeMatched)
        /\ NoTypologyLabel \in Range(res.typologies) => res.typologies = <<NoTypologyLabel>>
        /\ LayeringLabel \in Range(res.typologies) <=> LayeringMatched
        /\ RemittanceLabel \in Range(res.typologies) <=> RemittanceMatched
        /\ CryptoLabel \in Range(res.typologies) <=> CryptoMatched
        /\ TradeLabel \in Range(res.typologies) <=> TradeMatched

\* several labels at once, the sentinel not among them
C6_Witness ==
    /\ Scored
    /\ Len(res.typologies) >= 2
    /\ NoTypologyLabel \notin Range(res.typologies)

(***************************************************************************)
(* C7                                                                      *)
(***************************************************************************)
\* C7: the layering label is in the typology list exactly when the amount
\* exceeds the high threshold the amount rule uses for the transaction's
\* account type and the sender is a high-risk country.
C7_LayeringUsesOwnThreshold ==
    Scored =>
        (LayeringLabel \in Range(res.typologies)
            <=> (Gt(In.amount, ThresholdPair(In.acct_type)[1])
                 /\ In.sender \in HIGH_RISK_COUNTRIES))

(***************************************************************************)
(* C8                                                                      *)
(***************************************************************************)
\* C8: the explanation is the reasons of the groups that fired, at most one
\* per group, in the order country, amount, purpose, cross-border, joined
\* with "; "; it is the fixed "No strong drivers" text exactly when no
\* group fired, which is exactly when the score is 0.
C8_Explanation ==
    Scored =>
        /\ \A i \in 1..Len(reasons) : GroupOf(reasons[i]) \in 1..4
        /\ \A i, j \in 1..Len(reasons) : i < j => GroupOf(reasons[i]) < GroupOf(reasons[j])
        /\ GroupFired(1) <=> CountryRule(In.sender, In.receiver).points > 0
        /\ GroupFired(2) <=> AmountRule(In.amount, In.acct_type).points > 0
        /\ GroupFired(3) <=> PurposeRule(In.purpose).points > 0
        /\ GroupFired(4) <=> CrossBorderRule(In.sender, In.receiver).points > 0
        /\ reasons # <<>> => res.explanation = Join(<<";"," ">>, reasons)
        /\ res.explanation = NoDriversText <=> reasons = <<>>
        /\ reasons = <<>> <=> res.score = 0

\* all four groups give their reason
C8_Witness ==
    /\ Scored
    /\ Len(reasons) = 4
    /\ res.explanation # NoDriversText

(***************************************************************************)
(* C9                                                                      *)
(***************************************************************************)
\* C9: with countries, purpose and account type fixed, a larger amount
\* never has a smaller amount sub-score or total score than a smaller one.
C9_AmountMonotone ==
    (Scored /\ In.amount.kind = "float") =>
        \A n \in NumericAmounts :
            LET other == compute_risk_and_typology([tx EXCEPT !["amount_usd"] = Float(n)])
            IN  /\ other.result.status = "ok"
                /\ n >= In.amount.num =>
                    /\ other.risk_points >= risk_points
                    /\ other.result.score >= res.score
                /\ n <= In.amount.num =>
                    /\ other.risk_points <= risk_points
                    /\ other.result.score <= res.score

\* an amount just over the medium threshold, with larger and smaller
\* amounts to compare it with
C9_Witness ==
    /\ Scored
    /\ In.amount = Float(5001)
    /\ In.acct_type = <<"i","n","d","i","v","i","d","u","a","l">>
    /\ GroupFired(2)

(***************************************************************************)
(* C10                                                                     *)
(***************************************************************************)
\* C10: a transaction between two different trimmed countries, one of them
\* high-risk, is High with a score of at least 60; one that involves a
\* high-risk country is never Low, and is Medium only when sender and
\* receiver are the same country and neither the amount rule nor the
\* purpose rule fired.
C10_HighRiskCountryTier ==
    (Scored /\ InvolvesHighRisk) =>
        /\ In.sender # In.receiver => (res.level = "High" /\ res.score >= 60)
        /\ res.level # "Low"
        /\ res.level = "Medium" =>
            /\ In.sender = In.receiver
            /\ ~GroupFired(2)
            /\ ~GroupFired(3)

\* a high-risk receiver only, nothing else firing but cross-border
C10_Witness ==
    /\ Scored
    /\ In.sender \notin HIGH_RISK_COUNTRIES
    /\ In.receiver \in HIGH_RISK_COUNTRIES
    /\ res.score = 60
    /\ res.level = "High"

====
